---- MODULE Spec2Model ----
(***************************************************************************)
(* Checkout and webhook reconciliation of src/index.js.                    *)
(*                                                                         *)
(* The file holds two versions of the server (lines 1-249 and 251-452).    *)
(* `variant` says which one is deployed.  A handler runs atomically from   *)
(* one `await` to the next, so an action is "the awaited call returns and  *)
(* the handler runs up to its next await or to its response".  Requests in *)
(* flight are kept in two bags (a handler holds nothing that tells two     *)
(* requests with the same locals apart).  `done` is the request answered   *)
(* in the current turn of the event loop, with its response; the turn ends *)
(* before any other callback runs.  The Event Store (events,               *)
(* event_registrations), the auth service and the payment gateway are the  *)
(* shared state.                                                           *)
(***************************************************************************)
EXTENDS Integers, Sequences, FiniteSets, Bags, TLC

VARIABLES variant, stripeReady, sessions, registrations, checkouts, webhooks,
          done, received

vars == <<variant, stripeReady, sessions, registrations, checkouts, webhooks,
          done, received>>

(* ---- bounds ---------------------------------------------------------- *)
\* the number of HTTP requests, of either kind, that a run handles
MaxRequests == 4

(* ---- values ---------------------------------------------------------- *)
NullId == 0
NullText == "null"

WebhookSecret == "whsec"

\* rows of the `events` table: E2 is free, E3 has no price, E4 a negative one
Events ==
  { [id |-> "E1", title |-> "Meetup", has_price |-> TRUE,  price |-> 25],
    [id |-> "E2", title |-> "Free",   has_price |-> TRUE,  price |-> 0],
    [id |-> "E3", title |-> "Draft",  has_price |-> FALSE, price |-> 0],
    [id |-> "E4", title |-> "Refund", has_price |-> TRUE,  price |-> -5] }

NoEvent == [id |-> "", title |-> "", has_price |-> FALSE, price |-> 0]

\* auth users: U2 has no email address
UserEmail(userId) == IF userId = "U1" THEN "u1@example.org" ELSE ""

Body(e, u, s, c) == [eventId |-> e, userId |-> u, successUrl |-> s, cancelUrl |-> c]

\* request bodies offered to /create-checkout-session; "" is a missing or empty field
Bodies ==
  { Body("E1", "U1", "ok", "ko"), Body("E1", "U2", "ok", "ko"),
    Body("E2", "U1", "ok", "ko"), Body("E3", "U1", "ok", "ko"),
    Body("E4", "U1", "ok", "ko"), Body("E9", "U1", "ok", "ko"),
    Body("",   "U1", "ok", "ko"), Body("E1", "",   "ok", "ko"),
    Body("E1", "U1", "",   "ko"), Body("E1", "U1", "ok", "") }

NoBody == Body("", "", "", "")

TicketNumbers == {"1000", "9999"}

(* ---- error messages -------------------------------------------------- *)
MsgMissing == "Missing required fields"
MsgPrice == "Invalid event price"
MsgNoRows == "JSON object requested, multiple (or no) rows returned"
MsgEventNotFound == "Event not found"
MsgNoEmail == "User email not found"
MsgStore == "store unavailable"
MsgAuth == "auth unavailable"
MsgStripe == "gateway unavailable"
MsgStripeUndefined == "Cannot read properties of undefined"
MsgSignature == "Webhook Error: No signatures found matching the expected signature for payload"

(* ---- pure parts of the handlers -------------------------------------- *)

\* mutant: the check forgets cancelUrl
MissingSomeFields(body) ==
  body.eventId = "" \/ body.userId = "" \/ body.successUrl = ""

\* if (!eventId || !userId || !successUrl || !cancelUrl)
MissingRequiredFields(body) ==
  body.eventId = "" \/ body.userId = "" \/ body.successUrl = "" \/ body.cancelUrl = ""

\* .single(): exactly one row, or an error and no data
Single(rows) ==
  IF Cardinality(rows) = 1
    THEN [data |-> CHOOSE r \in rows : TRUE, error |-> ""]
    ELSE [data |-> NoEvent, error |-> MsgNoRows]

\* supabase.from('events').select('*').eq('id', eventId).single()
SelectEvent(eventId) == Single({e \in Events : e.id = eventId})

\* mutant: only a negative price is refused
NegativePriceOnly(event) == event.has_price /\ event.price < 0

\* if (!event.price || event.price <= 0)
InvalidEventPrice(event) ==
  (~event.has_price \/ event.price = 0) \/ event.price <= 0

\* the url the gateway hands out for a session
SessionUrl(id) == <<"https://checkout", id>>
NoUrl == <<>>

\* the payment intent the gateway attaches to a paid session
PaymentIntentOf(id) == 100 + id

\* stripe.checkout.sessions.create({... metadata: {eventId, userId}})
NewSession(id, body, event) ==
  [id |-> id, url |-> SessionUrl(id), unit_amount |-> event.price * 100,
   eventId |-> body.eventId, userId |-> body.userId]

\* mutant: the amount is stored in cents, as it is sent to the gateway
NewRegistrationInCents(v, body, event, email, sessionId, ticket) ==
  [event_id |-> body.eventId, user_id |-> body.userId,
   email |-> IF v = 1 THEN email ELSE NullText,
   status |-> "pending", payment_status |-> "pending",
   payment_amount |-> event.price * 100,
   payment_method |-> IF v = 1 THEN "stripe" ELSE NullText,
   stripe_session_id |-> sessionId, stripe_payment_intent_id |-> NullId,
   ticket_number |-> IF v = 1 THEN ticket ELSE NullText,
   ticket_status |-> IF v = 1 THEN "VALID" ELSE NullText]

\* the row of .insert([{...}])
NewRegistration(v, body, event, email, sessionId, ticket) ==
  IF v = 1
    THEN [event_id |-> body.eventId, user_id |-> body.userId, email |-> email,
          status |-> "pending", payment_status |-> "pending",
          payment_amount |-> event.price, payment_method |-> "stripe",
          stripe_session_id |-> sessionId, stripe_payment_intent_id |-> NullId,
          ticket_number |-> ticket, ticket_status |-> "VALID"]
    ELSE [event_id |-> body.eventId, user_id |-> body.userId, email |-> NullText,
          status |-> "pending", payment_status |-> "pending",
          payment_amount |-> event.price, payment_method |-> NullText,
          stripe_session_id |-> sessionId, stripe_payment_intent_id |-> NullId,
          ticket_number |-> NullText, ticket_status |-> NullText]

\* event.data.object of a notification about session s, metadata echoed
SessionObject(s) ==
  [id |-> s.id, eventId |-> s.eventId, userId |-> s.userId,
   payment_intent |-> PaymentIntentOf(s.id)]

\* a payload made up by somebody who does not hold the signing secret
GuessObject ==
  [id |-> 1, eventId |-> "E1", userId |-> "U1", payment_intent |-> PaymentIntentOf(1)]

EventTypes == {"checkout.session.completed", "checkout.session.expired"}

\* mutant: the payload is parsed without checking its signature
VerifyNothing(signedWith) == stripeReady

\* stripe.webhooks.constructEvent(rawBody, sig, secret) does not throw
VerifySignature(signedWith) == stripeReady /\ signedWith = WebhookSecret

\* mutant: every event type is handled as a completed checkout
IsAnyType(type) == TRUE

\* if (event.type === 'checkout.session.completed')
IsCompleted(type) == type = "checkout.session.completed"

\* mutant: the filter leaves out stripe_session_id
MatchesEventAndUser(r, obj) ==
  r.event_id = obj.eventId /\ r.user_id = obj.userId

\* .match({event_id, user_id, stripe_session_id})
MatchesRegistration(r, obj) ==
  /\ r.event_id = obj.eventId
  /\ r.user_id = obj.userId
  /\ r.stripe_session_id = obj.id

\* .update({status, payment_status, [payment_method,] stripe_payment_intent_id})
UpdatedRegistration(v, r, obj) ==
  IF v = 1
    THEN [r EXCEPT !.status = "pending", !.payment_status = "completed",
                   !.payment_method = "stripe",
                   !.stripe_payment_intent_id = obj.payment_intent]
    ELSE [r EXCEPT !.status = "approved", !.payment_status = "completed",
                   !.stripe_payment_intent_id = obj.payment_intent]

\* the store's UPDATE ... WHERE, one statement over the whole table
UpdateMatch(regs, v, obj) ==
  [i \in DOMAIN regs |->
     IF MatchesRegistration(regs[i], obj)
       THEN UpdatedRegistration(v, regs[i], obj)
       ELSE regs[i]]

(* ---- what a handler does when an awaited call has returned ----------- *)

\* after the events query: throw eventError / throw 'Event not found' /
\* 400 'Invalid event price' / a TypeError when `stripe` was never built /
\* otherwise call the gateway
AfterEvent(res) ==
  IF res.error # "" THEN [next |-> "throw", error |-> res.error]
  ELSE IF res.data = NoEvent THEN [next |-> "throw", error |-> MsgEventNotFound]
  ELSE IF InvalidEventPrice(res.data) THEN [next |-> "reject", error |-> MsgPrice]
  ELSE IF ~stripeReady THEN [next |-> "crash", error |-> MsgStripeUndefined]
  ELSE [next |-> "stripe", error |-> ""]

\* mutant: a rejected session creation is not thrown on
AfterSessionCreateNoThrow(v, ok) == IF v = 1 THEN "auth" ELSE "insert"

\* after stripe.checkout.sessions.create: a rejection is thrown on; version 1
\* then asks the auth service for the user, version 2 inserts at once
AfterSessionCreate(v, ok) ==
  IF ~ok THEN "throw" ELSE IF v = 1 THEN "auth" ELSE "insert"

\* after auth.admin.getUserById: throw userError / throw 'User email not found'
AfterUser(res) ==
  IF res.error # "" THEN [next |-> "throw", error |-> res.error]
  ELSE IF res.email = "" THEN [next |-> "throw", error |-> MsgNoEmail]
  ELSE [next |-> "insert", error |-> ""]

\* mutant: regError is logged and not thrown
AfterInsertNoThrow(error) == "respond"

\* after the insert: throw regError, or answer with the session's url
AfterInsert(error) == IF error # "" THEN "throw" ELSE "respond"

\* mutant: the test of the update's error is inverted
AfterUpdateInverted(error) == IF error = "" THEN 400 ELSE 200

\* after the update: 400 {error} when the store reported or threw an error,
\* otherwise fall through to res.json({received: true})
AfterUpdate(error) == IF error # "" THEN 400 ELSE 200

(* ---- requests ------------------------------------------------------- *)

\* no request is being answered
NoRequest == [kind |-> "none"]

\* the locals of a /create-checkout-session handler; failedAt and calls log
\* which awaited call failed and which calls the handler has issued
NewCheckout(body) ==
  [pc |-> "start", body |-> body, event |-> NoEvent, session |-> NullId,
   email |-> "", failedAt |-> "", calls |-> <<>>]

\* the locals of a /webhook handler
NewWebhook(signedWith, type, object) ==
  [pc |-> "start", signedWith |-> signedWith, type |-> type, object |-> object,
   failedAt |-> "", calls |-> <<>>]

\* res.status(status).json(...) of /create-checkout-session
Respond(r, status, shape, error, url) ==
  [kind |-> "checkout", body |-> r.body, event |-> r.event, session |-> r.session,
   email |-> r.email, failedAt |-> r.failedAt, calls |-> r.calls,
   status |-> status, shape |-> shape, error |-> error, url |-> url]

\* the outer catch: 500 {error, type, details}
Caught(r, error) == Respond(r, 500, "error,type,details", error, NoUrl)

\* res.status(status).send(...) / .json(...) of /webhook; matched and repeated
\* count the rows the update matched and those of them it found completed
Answer(r, status, shape, error, matched, repeated) ==
  [kind |-> "webhook", signedWith |-> r.signedWith, type |-> r.type,
   object |-> r.object, failedAt |-> r.failedAt, calls |-> r.calls,
   status |-> status, shape |-> shape, error |-> error,
   matched |-> matched, repeated |-> repeated]

One(r) == SetToBag({r})

Init ==
  /\ variant \in {1, 2}
  /\ stripeReady \in BOOLEAN
  /\ (variant = 2 => stripeReady)   \* version 2 does not start without the client
  /\ sessions = <<>>
  /\ registrations = <<>>
  /\ checkouts = EmptyBag
  /\ webhooks = EmptyBag
  /\ done = NoRequest
  /\ received = 0

(* ---- POST /create-checkout-session ----------------------------------- *)

\* session.url of the session object the handler holds
UrlOf(id) == IF id \in DOMAIN sessions THEN sessions[id].url ELSE NoUrl

\* the request arrives: validation, then the events query is issued
CheckoutStart(body) ==
  /\ done = NoRequest
  /\ received < MaxRequests
  /\ received' = received + 1
  /\ LET r == NewCheckout(body) IN
     IF MissingRequiredFields(body)
       THEN /\ done' = Respond(r, 400, "error", MsgMissing, NoUrl)
            /\ UNCHANGED checkouts
       ELSE /\ checkouts' = checkouts (+)
                 One([r EXCEPT !.pc = "events", !.calls = <<"events.select">>])
            /\ UNCHANGED done
  /\ UNCHANGED <<variant, stripeReady, sessions, registrations, webhooks>>

\* the events query returns
CheckoutEventResult(me, fails) ==
  /\ done = NoRequest
  /\ BagIn(me, checkouts)
  /\ me.pc = "events"
  /\ LET res == IF fails THEN [data |-> NoEvent, error |-> MsgStore]
                         ELSE SelectEvent(me.body.eventId)
         step == AfterEvent(res)
         r == [me EXCEPT !.event = res.data,
                 !.failedAt = IF res.error # "" THEN "events" ELSE ""]
     IN CASE step.next = "throw" ->
               /\ done' = Caught(r, step.error)
               /\ checkouts' = checkouts (-) One(me)
          [] step.next = "crash" ->
               /\ done' = Caught([r EXCEPT !.failedAt = "stripe"], step.error)
               /\ checkouts' = checkouts (-) One(me)
          [] step.next = "reject" ->
               /\ done' = Respond(r, 400, "error", step.error, NoUrl)
               /\ checkouts' = checkouts (-) One(me)
          [] OTHER ->
               /\ checkouts' = (checkouts (-) One(me)) (+)
                    One([r EXCEPT !.pc = "stripe",
                                  !.calls = Append(@, "stripe.sessions.create")])
               /\ UNCHANGED done
  /\ UNCHANGED <<variant, stripeReady, sessions, registrations, webhooks, received>>

\* the gateway answers the session creation
CheckoutSessionResult(me, ok) ==
  /\ done = NoRequest
  /\ BagIn(me, checkouts)
  /\ me.pc = "stripe"
  /\ LET id == Len(sessions) + 1
         next == AfterSessionCreate(variant, ok)
         r == [me EXCEPT !.session = IF ok THEN id ELSE NullId,
                 !.failedAt = IF ok THEN "" ELSE "stripe"]
     IN /\ sessions' = IF ok THEN Append(sessions, NewSession(id, me.body, me.event))
                             ELSE sessions
        /\ CASE next = "throw" ->
                  /\ done' = Caught(r, MsgStripe)
                  /\ checkouts' = checkouts (-) One(me)
             [] next = "auth" ->
                  /\ checkouts' = (checkouts (-) One(me)) (+)
                       One([r EXCEPT !.pc = "auth",
                                     !.calls = Append(@, "auth.getUserById")])
                  /\ UNCHANGED done
             [] OTHER ->
                  /\ checkouts' = (checkouts (-) One(me)) (+)
                       One([r EXCEPT !.pc = "insert",
                                     !.calls = Append(@, "registrations.insert")])
                  /\ UNCHANGED done
  /\ UNCHANGED <<variant, stripeReady, registrations, webhooks, received>>

\* the auth service answers the user lookup (version 1 only)
CheckoutUserResult(me, fails) ==
  /\ done = NoRequest
  /\ BagIn(me, checkouts)
  /\ me.pc = "auth"
  /\ LET res == IF fails THEN [email |-> "", error |-> MsgAuth]
                         ELSE [email |-> UserEmail(me.body.userId), error |-> ""]
         step == AfterUser(res)
         r == [me EXCEPT !.email = res.email,
                 !.failedAt = IF res.error # "" \/ res.email = "" THEN "auth" ELSE ""]
     IN IF step.next = "throw"
          THEN /\ done' = Caught(r, step.error)
               /\ checkouts' = checkouts (-) One(me)
          ELSE /\ checkouts' = (checkouts (-) One(me)) (+)
                    One([r EXCEPT !.pc = "insert",
                                  !.calls = Append(@, "registrations.insert")])
               /\ UNCHANGED done
  /\ UNCHANGED <<variant, stripeReady, sessions, registrations, webhooks, received>>

\* the store answers the insert
CheckoutInsertResult(me, fails, ticket) ==
  /\ done = NoRequest
  /\ BagIn(me, checkouts)
  /\ me.pc = "insert"
  /\ LET row == NewRegistration(variant, me.body, me.event, me.email, me.session, ticket)
         r == [me EXCEPT !.failedAt = IF fails THEN "insert" ELSE ""]
     IN /\ registrations' = IF fails THEN registrations ELSE Append(registrations, row)
        /\ done' = IF AfterInsert(IF fails THEN MsgStore ELSE "") = "throw"
                     THEN Caught(r, MsgStore)
                     ELSE Respond(r, 200, "url", "", UrlOf(me.session))
        /\ checkouts' = checkouts (-) One(me)
  /\ UNCHANGED <<variant, stripeReady, sessions, webhooks, received>>

(* ---- POST /webhook --------------------------------------------------- *)

\* payloads a sender can put in a request: the gateway signs notifications
\* about its own sessions; anybody else can send anything, unsigned
Payloads(signedWith) ==
  {SessionObject(sessions[i]) : i \in DOMAIN sessions}
    \cup (IF signedWith = WebhookSecret THEN {} ELSE {GuessObject})

\* the request arrives: signature check, type check, then the update is issued
WebhookStart(signedWith, type, object) ==
  /\ done = NoRequest
  /\ received < MaxRequests
  /\ received' = received + 1
  /\ object \in Payloads(signedWith)
  /\ LET r == NewWebhook(signedWith, type, object) IN
     IF ~VerifySignature(signedWith)
       THEN /\ done' = Answer(r, 400, "text", MsgSignature, 0, 0)
            /\ UNCHANGED webhooks
     ELSE IF ~IsCompleted(type)
       THEN /\ done' = Answer(r, 200, "received", "", 0, 0)
            /\ UNCHANGED webhooks
       ELSE /\ webhooks' = webhooks (+)
                 One([r EXCEPT !.pc = "update", !.calls = <<"registrations.update">>])
            /\ UNCHANGED done
  /\ UNCHANGED <<variant, stripeReady, sessions, registrations, checkouts>>

\* the store answers the update
WebhookUpdateResult(me, fails) ==
  /\ done = NoRequest
  /\ BagIn(me, webhooks)
  /\ me.pc = "update"
  /\ LET status == AfterUpdate(IF fails THEN MsgStore ELSE "")
         r == [me EXCEPT !.failedAt = IF fails THEN "update" ELSE ""]
         rows == IF fails THEN {}
                 ELSE {i \in DOMAIN registrations :
                         MatchesRegistration(registrations[i], me.object)}
         again == {i \in rows : registrations[i].payment_status = "completed"}
     IN /\ registrations' = IF fails THEN registrations
                            ELSE UpdateMatch(registrations, variant, me.object)
        /\ done' = IF status = 200
                     THEN Answer(r, 200, "received", "", Cardinality(rows), Cardinality(again))
                     ELSE Answer(r, status, "error", MsgStore, Cardinality(rows), Cardinality(again))
        /\ webhooks' = webhooks (-) One(me)
  /\ UNCHANGED <<variant, stripeReady, sessions, checkouts, received>>

\* the response is on the wire and the turn of the event loop ends
TurnEnds ==
  /\ done # NoRequest
  /\ done' = NoRequest
  /\ UNCHANGED <<variant, stripeReady, sessions, registrations, checkouts, webhooks,
                 received>>

Next ==
  \/ \E body \in Bodies : CheckoutStart(body)
  \/ \E me \in BagToSet(checkouts), fails \in BOOLEAN : CheckoutEventResult(me, fails)
  \/ \E me \in BagToSet(checkouts), ok \in BOOLEAN : CheckoutSessionResult(me, ok)
  \/ \E me \in BagToSet(checkouts), fails \in BOOLEAN : CheckoutUserResult(me, fails)
  \/ \E me \in BagToSet(checkouts), fails \in BOOLEAN, ticket \in TicketNumbers :
       CheckoutInsertResult(me, fails, ticket)
  \/ \E signedWith \in {WebhookSecret, "forged"}, type \in EventTypes :
       \E object \in Payloads(signedWith) : WebhookStart(signedWith, type, object)
  \/ \E me \in BagToSet(webhooks), fails \in BOOLEAN : WebhookUpdateResult(me, fails)
  \/ TurnEnds

Spec == Init /\ [][Next]_vars

(* ======================================================================= *)
(* Properties                                                              *)
(* ======================================================================= *)

Range(s) == {s[i] : i \in DOMAIN s}

NoRepeats(s) == \A i, j \in DOMAIN s : s[i] = s[j] => i = j

\* at least one of the four required fields is missing or empty
FieldMissing(body) ==
  \E f \in {"eventId", "userId", "successUrl", "cancelUrl"} : body[f] = ""

\* the registrations that refer to payment session id
RowsOf(id) == {i \in DOMAIN registrations : registrations[i].stripe_session_id = id}

\* the update of a request has reached the store
Updating(r) == r.kind = "webhook" /\ r.calls # <<>>

\* row i and the payload carry the same {event, user, session} triple
SameTriple(row, obj) ==
  /\ row.event_id = obj.eventId
  /\ row.user_id = obj.userId
  /\ row.stripe_session_id = obj.id

\* C1: payment_status of an existing Registration changes only from 'pending'
\* to 'completed', and only in the step of a /webhook request whose signature
\* verified, whose type is 'checkout.session.completed' and whose
\* {eventId, userId, session id} equals the triple of that Registration; rows
\* are never removed.
C1_PaymentStatusWriter ==
  [][ /\ Len(registrations') >= Len(registrations)
      /\ \A i \in DOMAIN registrations :
           registrations'[i].payment_status # registrations[i].payment_status =>
             /\ registrations[i].payment_status = "pending"
             /\ registrations'[i].payment_status = "completed"
             /\ done'.kind = "webhook"
             /\ done'.signedWith = WebhookSecret
             /\ done'.type = "checkout.session.completed"
             /\ SameTriple(registrations[i], done'.object) ]_vars

\* a verified completed notification has just completed a pending Registration
C1_Witness ==
  /\ done.kind = "webhook"
  /\ done.status = 200
  /\ done.matched = 1
  /\ done.repeated = 0
  /\ \E i \in DOMAIN registrations :
       /\ SameTriple(registrations[i], done.object)
       /\ registrations[i].payment_status = "completed"

\* C2: a /webhook request whose signature does not verify is answered 400
\* with the plaintext 'Webhook Error: <message>', issues no update and leaves
\* the registrations as they are, whatever its payload says.
C2_BadSignatureRejected ==
  /\ [](done.kind = "webhook" /\ done.signedWith # WebhookSecret =>
          /\ done.status = 400
          /\ done.shape = "text"
          /\ done.error = MsgSignature
          /\ done.calls = <<>>)
  /\ [][done'.kind = "webhook" /\ done'.signedWith # WebhookSecret =>
          registrations' = registrations]_vars

\* a forged 'completed' payload naming an existing pending Registration was
\* refused
C2_Witness ==
  /\ done.kind = "webhook"
  /\ done.signedWith # WebhookSecret
  /\ done.type = "checkout.session.completed"
  /\ done.status = 400
  /\ \E i \in DOMAIN registrations :
       /\ SameTriple(registrations[i], done.object)
       /\ registrations[i].payment_status = "pending"

\* C3: once a verified 'completed' notification has been applied, delivering
\* it again, in sequence or interleaved with the first delivery, changes
\* nothing: an update step leaves every row that is already completed, and
\* every row it does not match, exactly as it was, and applying the update
\* twice gives the table that applying it once gives.
C3_RedeliveryChangesNothing ==
  /\ [](\A o \in Payloads(WebhookSecret) :
          UpdateMatch(UpdateMatch(registrations, variant, o), variant, o)
            = UpdateMatch(registrations, variant, o))
  /\ [][Updating(done') =>
          \A i \in DOMAIN registrations :
            (registrations[i].payment_status = "completed"
               \/ ~SameTriple(registrations[i], done'.object))
              => registrations'[i] = registrations[i]]_vars

\* a second delivery of a notification found its Registration completed
C3_Witness ==
  /\ done.kind = "webhook"
  /\ done.signedWith = WebhookSecret
  /\ done.status = 200
  /\ done.repeated = 1
  /\ \E i \in DOMAIN registrations :
       /\ SameTriple(registrations[i], done.object)
       /\ registrations[i].stripe_payment_intent_id = done.object.payment_intent

\* C4: a Registration is inserted only by a request whose session creation
\* has returned a session, and carries that session's id; every Registration
\* refers to a session the gateway issued for the same event and user; a
\* request whose gateway call failed inserts nothing.
C4_InsertOnlyAfterSession ==
  /\ [](\A i \in DOMAIN registrations :
          \E j \in DOMAIN sessions :
            /\ sessions[j].id = registrations[i].stripe_session_id
            /\ sessions[j].eventId = registrations[i].event_id
            /\ sessions[j].userId = registrations[i].user_id)
  /\ [](done.kind = "checkout" /\ done.failedAt = "stripe" =>
          /\ done.status = 500
          /\ "registrations.insert" \notin Range(done.calls)
          /\ RowsOf(done.session) = {})
  /\ [][ /\ Len(registrations') # Len(registrations) =>
              /\ Len(registrations') = Len(registrations) + 1
              /\ done'.kind = "checkout"
              /\ done'.session \in DOMAIN sessions
              /\ registrations'[Len(registrations')].stripe_session_id = done'.session
              /\ "stripe.sessions.create" \in Range(done'.calls)
         /\ done'.kind = "checkout" /\ done'.failedAt = "stripe" =>
              registrations' = registrations ]_vars

\* a gateway call failed while another request's Registration was in the store
C4_Witness ==
  /\ done.kind = "checkout"
  /\ done.failedAt = "stripe"
  /\ stripeReady
  /\ Len(registrations) = 1
  /\ Len(sessions) = 1

\* C5: a request that lacks one of eventId, userId, successUrl, cancelUrl is
\* answered 400 {error: 'Missing required fields'} without any external call:
\* no event read, no auth lookup, no gateway call, no insert.
C5_MissingFieldsRejectedFirst ==
  /\ [](done.kind = "checkout" /\ FieldMissing(done.body) =>
          /\ done.status = 400
          /\ done.shape = "error"
          /\ done.error = MsgMissing
          /\ done.calls = <<>>)
  /\ [][done'.kind = "checkout" /\ FieldMissing(done'.body) =>
          registrations' = registrations /\ sessions' = sessions]_vars

\* a request without cancelUrl was refused
C5_Witness ==
  /\ done.kind = "checkout"
  /\ done.body.cancelUrl = ""
  /\ done.body.eventId # ""
  /\ done.status = 400

\* the events whose price is missing, zero or negative
Unpriced == {e \in Events : ~e.has_price \/ e.price <= 0}

\* C6 as stated: every complete request for an event that exists with
\* price <= 0 or without a price is answered 400 {error: 'Invalid event price'}
\* and writes nothing.
C6_AsStated ==
  done.kind = "checkout" /\ ~FieldMissing(done.body)
    /\ done.body.eventId \in {e.id : e \in Unpriced} =>
      /\ done.status = 400
      /\ done.error = MsgPrice
      /\ done.session = NullId
      /\ "stripe.sessions.create" \notin Range(done.calls)

\* C6: every complete request whose event read returns an event with
\* price <= 0 or without a price is answered 400 {error: 'Invalid event price'}
\* and writes nothing: no session is created and no Registration inserted.
C6_UnpricedEventRejected ==
  /\ [](done.kind = "checkout" /\ ~FieldMissing(done.body)
          /\ done.body.eventId \in {e.id : e \in Unpriced}
          /\ done.failedAt = "" =>
            /\ done.status = 400
            /\ done.shape = "error"
            /\ done.error = MsgPrice
            /\ done.session = NullId
            /\ done.calls = <<"events.select">>)
  /\ [][done'.kind = "checkout" /\ done'.body.eventId \in {e.id : e \in Unpriced} =>
          registrations' = registrations /\ sessions' = sessions]_vars

\* an event without a price was refused
C6_Witness ==
  /\ done.kind = "checkout"
  /\ done.event \in Unpriced
  /\ ~done.event.has_price
  /\ done.status = 400

\* the messages of the model that contain "not found"
ContainsNotFound(msg) == msg \in {MsgEventNotFound, MsgNoEmail}

\* C7: a complete request whose eventId names no event is answered 400 with a
\* message containing "not found", and creates neither a session nor a
\* Registration (the store being reachable).
C7_NotFoundIs400 ==
  done.kind = "checkout" /\ ~FieldMissing(done.body)
    /\ done.body.eventId \notin {e.id : e \in Events}
    /\ done.error # MsgStore =>
      /\ done.status = 400
      /\ ContainsNotFound(done.error)
      /\ done.session = NullId
      /\ RowsOf(done.session) = {}

\* C8 as stated: every /webhook request whose signature verified is answered
\* 200 {received: true}.
C8_AsStated ==
  done.kind = "webhook" /\ done.signedWith = WebhookSecret =>
    done.status = 200 /\ done.shape = "received"

\* C8: a /webhook request whose signature verified is answered
\* 200 {received: true} unless the store's update call itself fails, in which
\* case it is answered 400 {error} and nothing was changed; a 'completed'
\* notification that matches no Registration changes nothing and is answered
\* 200, and a notification of another type issues no update, changes nothing
\* and is answered 200.
C8_VerifiedAcknowledged ==
  /\ [](done.kind = "webhook" /\ done.signedWith = WebhookSecret =>
          /\ done.failedAt = "" => done.status = 200 /\ done.shape = "received"
          /\ done.failedAt # "" => done.status = 400 /\ done.shape = "error"
          /\ done.type # "checkout.session.completed" =>
               done.calls = <<>> /\ done.failedAt = "")
  /\ [][done'.kind = "webhook" /\ done'.signedWith = WebhookSecret
          /\ (done'.type # "checkout.session.completed"
                \/ done'.failedAt # ""
                \/ \A i \in DOMAIN registrations :
                     ~SameTriple(registrations[i], done'.object)) =>
          registrations' = registrations]_vars

\* a verified 'completed' notification matched no Registration and was
\* acknowledged
C8_Witness ==
  /\ done.kind = "webhook"
  /\ done.signedWith = WebhookSecret
  /\ done.type = "checkout.session.completed"
  /\ done.calls # <<>>
  /\ done.failedAt = ""
  /\ done.matched = 0
  /\ done.status = 200

\* the events that can be charged
Priced == {e \in Events : e.has_price /\ e.price > 0}

\* the request was complete, its event is priced and none of its calls failed
AllWentWell(r) ==
  /\ r.kind = "checkout"
  /\ ~FieldMissing(r.body)
  /\ r.body.eventId \in {e.id : e \in Priced}
  /\ r.failedAt = ""

Orphaned(id) ==
  /\ RowsOf(id) = {}
  /\ \A r \in BagToSet(checkouts) : r.session # id

\* C10: when the session was created and the user lookup or the insert then
\* fails, the request is answered 500, no Registration refers to the session,
\* then or later, the session stays at the gateway as it is, no call was
\* issued twice, and a later verified 'completed' notification about that
\* session changes no Registration.
C10_OrphanedSession ==
  /\ [](done.kind = "checkout" /\ done.failedAt \in {"auth", "insert"} =>
          /\ done.status = 500
          /\ done.session \in DOMAIN sessions
          /\ Orphaned(done.session)
          /\ NoRepeats(done.calls))
  /\ [][ /\ \A id \in DOMAIN sessions :
              /\ id \in DOMAIN sessions' /\ sessions'[id] = sessions[id]
              /\ Orphaned(id) => Orphaned(id)'
         /\ Updating(done') /\ Orphaned(done'.object.id) =>
              registrations' = registrations ]_vars

\* a verified 'completed' notification about an orphaned session was
\* acknowledged
C10_Witness ==
  /\ done.kind = "webhook"
  /\ done.signedWith = WebhookSecret
  /\ done.type = "checkout.session.completed"
  /\ done.status = 200
  /\ done.matched = 0
  /\ Orphaned(done.object.id)

====
